---- MODULE Spec2Model ----
(***************************************************************************)
(* Model of the photo geo-tagging scripts main.py, geotag.py and           *)
(* geo-tagging.py: the timeline normalizer, the timezone-offset converter, *)
(* the nearest-timestamp matcher, the coordinate encoder and the per-photo *)
(* batch.                                                                  *)
(*                                                                         *)
(* Representation.                                                         *)
(*  - A Python str is a sequence of one-character strings.                 *)
(*  - A datetime is [sec, us, aware, off]: wall-clock seconds counted from *)
(*    midnight of the day of the run, microseconds, and the tzinfo (aware, *)
(*    off = utcoffset in minutes).                                         *)
(*  - A timedelta is [s, us] normalised as Python does, 0 <= us < 10^6.    *)
(*  - A float coordinate is an integer count of 1/3600 degree.             *)
(*  - A call that may raise returns [ok |-> FALSE, err |-> <exception>].   *)
(***************************************************************************)
EXTENDS Integers, Sequences, FiniteSets, TLC

(***************************************************************************)
(* Bounds of the model.                                                    *)
(***************************************************************************)
MaxRecords == 2      \* records in the location-history document
MaxLen == 3          \* samples of a timeline handed to the matcher
MaxTime == 3         \* timeline timestamps 0..MaxTime seconds in the matcher
MaxDeg == 2          \* coordinates -MaxDeg..MaxDeg degrees in the encoder
MaxOffsetHours == 5  \* offsets up to +-MaxOffsetHours:45 in the converter
MaxPhotos == 2       \* photos in the batch
MaxWorkers == 2      \* --workers of geotag.py

(***************************************************************************)
(* Python str helpers.                                                     *)
(***************************************************************************)
Digit == [c \in {"0", "1", "2", "3", "4", "5", "6", "7", "8", "9"} |->
            CASE c = "0" -> 0 [] c = "1" -> 1 [] c = "2" -> 2 [] c = "3" -> 3
              [] c = "4" -> 4 [] c = "5" -> 5 [] c = "6" -> 6 [] c = "7" -> 7
              [] c = "8" -> 8 [] c = "9" -> 9]

DigitChar == <<"0", "1", "2", "3", "4", "5", "6", "7", "8", "9">>

IsDigits(s) == Len(s) > 0 /\ \A i \in 1..Len(s) : s[i] \in DOMAIN Digit

RECURSIVE DigitsValue(_)
DigitsValue(s) ==
    IF s = <<>> THEN 0
    ELSE 10 * DigitsValue(SubSeq(s, 1, Len(s) - 1)) + Digit[s[Len(s)]]

\* str.split(sep): the parts of s between the occurrences of sep.
RECURSIVE split(_, _)
split(s, sep) ==
    IF \E i \in 1..Len(s) : s[i] = sep
    THEN LET i == CHOOSE k \in 1..Len(s) :
                     s[k] = sep /\ \A j \in 1..(k - 1) : s[j] # sep
         IN  <<SubSeq(s, 1, i - 1)>> \o split(SubSeq(s, i + 1, Len(s)), sep)
    ELSE <<s>>

\* int(s): an optional sign and at least one digit, else ValueError.
int(s) ==
    LET parse(negative, body) ==
            IF IsDigits(body)
            THEN [ok |-> TRUE,
                  val |-> IF negative THEN 0 - DigitsValue(body) ELSE DigitsValue(body)]
            ELSE [ok |-> FALSE, err |-> "ValueError"]
    IN  IF Len(s) > 0 /\ s[1] \in {"+", "-"}
        THEN parse(s[1] = "-", Tail(s))
        ELSE parse(FALSE, s)

\* float(s) on the strings of the model (no fraction part): degrees, counted
\* in 1/3600 degree.
float(s) ==
    LET scaled(r) == IF r.ok THEN [ok |-> TRUE, val |-> r.val * (60 * 60)] ELSE r
    IN  scaled(int(s))

(***************************************************************************)
(* datetime and timedelta.                                                 *)
(***************************************************************************)
Million == 1000 * 1000

naive(sec, us) == [sec |-> sec, us |-> us, aware |-> FALSE, off |-> 0]

\* datetime < datetime (both naive), as Location.__lt__ compares them.
dt_lt(a, b) == a.sec < b.sec \/ (a.sec = b.sec /\ a.us < b.us)

dt_le(a, b) == ~dt_lt(b, a)

\* datetime - datetime: a normalised timedelta.
dt_sub(a, b) ==
    IF a.us >= b.us THEN [s |-> a.sec - b.sec, us |-> a.us - b.us]
    ELSE [s |-> a.sec - b.sec - 1, us |-> a.us - b.us + Million]

td_lt(x, y) == x.s < y.s \/ (x.s = y.s /\ x.us < y.us)

td_abs(x) ==
    IF x.s >= 0 THEN x
    ELSE IF x.us = 0 THEN [s |-> 0 - x.s, us |-> 0]
         ELSE [s |-> 0 - x.s - 1, us |-> Million - x.us]

\* datetime.strftime('%z'): "" for a naive datetime, else sign, HH, MM.
strftime_z(dt) ==
    IF ~dt.aware THEN <<>>
    ELSE LET a == IF dt.off < 0 THEN 0 - dt.off ELSE dt.off
             h == a \div 60
             m == a % 60
         IN  <<IF dt.off < 0 THEN "-" ELSE "+",
               DigitChar[(h \div 10) + 1], DigitChar[(h % 10) + 1],
               DigitChar[(m \div 10) + 1], DigitChar[(m % 10) + 1]>>

(***************************************************************************)
(* Utility functions of the scripts.                                       *)
(***************************************************************************)
\* parse_geo_point: geo_point.split(':')[1].split(','), two floats.
parse_geo_point(geo_point) ==
    LET pair(lat, lng) ==
            IF lat.ok /\ lng.ok
            THEN [ok |-> TRUE, lat |-> lat.val, lng |-> lng.val]
            ELSE [ok |-> FALSE, err |-> "ValueError"]
        unpack(parts) ==
            IF Len(parts) # 2 THEN [ok |-> FALSE, err |-> "ValueError"]
            ELSE pair(float(parts[1]), float(parts[2]))
        second(byColon) ==
            IF Len(byColon) < 2 THEN [ok |-> FALSE, err |-> "IndexError"]
            ELSE unpack(split(byColon[2], ","))
    IN  second(split(geo_point, ":"))

\* format_offset: offset_str[:-2] + ':' + offset_str[-2:].
format_offset(offset_str) ==
    LET n == Len(offset_str)
    IN  SubSeq(offset_str, 1, n - 2) \o <<":">> \o
        SubSeq(offset_str, IF n < 2 THEN 1 ELSE n - 1, n)

\* Mutation of offset_sign: the sign character is not read.
offset_sign_ignored(offset_str) == 1

\* The sign convert_to_utc reads from the first character of the offset.
offset_sign(offset_str) == IF offset_str[1] = "+" THEN 1 ELSE 0 - 1

\* convert_to_utc: local time minus the signed offset, tzinfo and
\* microsecond removed. An empty offset_str stands for None or "".
convert_to_utc(local_time, offset_str) ==
    LET subtract(sign, offset_hours, offset_minutes) ==
            IF ~(offset_hours.ok /\ offset_minutes.ok)
            THEN [ok |-> FALSE, err |-> "ValueError"]
            ELSE [ok |-> TRUE,
                  val |-> naive(local_time.sec
                                - (sign * offset_hours.val * 3600
                                   + sign * offset_minutes.val * 60), 0)]
        unpack(sign, parts) ==
            IF Len(parts) # 2 THEN [ok |-> FALSE, err |-> "ValueError"]
            ELSE subtract(sign, int(parts[1]), int(parts[2]))
    IN  IF offset_str # <<>>
        THEN unpack(offset_sign(offset_str), split(Tail(offset_str), ":"))
        ELSE [ok |-> TRUE, val |-> naive(local_time.sec, 0)]

(***************************************************************************)
(* The three scripts. geo-tagging.py and geotag.py share the normalizer    *)
(* and the encoder; main.py inlines the normalizer and has its own to_deg. *)
(***************************************************************************)
Variants == {"main", "geotag", "geo_tagging"}

\* class Location: the four fields of a sample.
Location(timestamp, latitude, longitude, maps_type) ==
    [timestampUtc |-> timestamp, latitude |-> latitude,
     longitude |-> longitude, maps_type |-> maps_type]

\* datetime + timedelta(minutes = m), tzinfo kept.
plus_minutes(dt, m) == [dt EXCEPT !.sec = dt.sec + 60 * m]

\* datetime.replace(tzinfo=None): the wall clock and the microsecond stay.
replace_tzinfo_none(dt) == naive(dt.sec, dt.us)

\* Two calls in sequence, each returning samples: the first that raises
\* ends the sequence, else the samples of both in order.
extend(first, rest) ==
    IF ~first.ok THEN [ok |-> FALSE, err |-> first.err]
    ELSE IF ~rest.ok THEN [ok |-> FALSE, err |-> rest.err]
    ELSE [ok |-> TRUE, locs |-> first.locs \o rest.locs]

\* The body of the loop over entry['timelinePath'] for one sub-point.
timeline_point(point_data, start_time_dt) ==
    LET located(timestamp_utc, geo) ==
            IF ~geo.ok THEN [ok |-> FALSE, err |-> geo.err]
            ELSE [ok |-> TRUE,
                  locs |-> <<Location(timestamp_utc, geo.lat, geo.lng, "timeline")>>]
        stamped(duration_offset) ==
            IF ~duration_offset.ok THEN [ok |-> FALSE, err |-> "ValueError"]
            ELSE located(replace_tzinfo_none(plus_minutes(start_time_dt,
                                                          duration_offset.val)),
                         parse_geo_point(point_data.point))
    IN  stamped(int(point_data.durationMinutesOffsetFromStartTime))

\* generate_timeline_locations: one sample per sub-point, in order; the
\* first sub-point that raises ends the call.
RECURSIVE generate_timeline_locations(_, _)
generate_timeline_locations(timeline_path, start_time_dt) ==
    IF timeline_path = <<>> THEN [ok |-> TRUE, locs |-> <<>>]
    ELSE extend(timeline_point(Head(timeline_path), start_time_dt),
                generate_timeline_locations(Tail(timeline_path), start_time_dt))

\* An endpoint of an activity or a visit: convert_to_utc with the offset
\* that strftime('%z') and format_offset give for that endpoint.
endpoint_utc(time_dt) == convert_to_utc(time_dt, format_offset(strftime_z(time_dt)))

\* Mutation of generate_activity_locations: the end time is converted with
\* the offset of the start time.
generate_activity_locations_start_offset(v, entry, start_time_dt) ==
    LET both(start_time_utc, start, end, end_time_utc) ==
            IF ~start.ok THEN [ok |-> FALSE, err |-> start.err]
            ELSE IF ~end.ok THEN [ok |-> FALSE, err |-> end.err]
            ELSE IF ~end_time_utc.ok THEN [ok |-> FALSE, err |-> end_time_utc.err]
            ELSE [ok |-> TRUE,
                  locs |-> <<Location(start_time_utc.val, start.lat, start.lng,
                                      "activity_start"),
                             Location(end_time_utc.val, end.lat, end.lng,
                                      "activity_end")>>]
        keyed(start_time_utc) ==
            IF ~start_time_utc.ok THEN [ok |-> FALSE, err |-> start_time_utc.err]
            ELSE IF ~(entry.hasStart /\ entry.hasEnd)
            THEN IF v = "main" THEN [ok |-> TRUE, locs |-> <<>>]
                 ELSE [ok |-> FALSE, err |-> "KeyError"]
            ELSE both(start_time_utc, parse_geo_point(entry.start),
                      parse_geo_point(entry.end),
                      convert_to_utc(entry.endTime,
                                     format_offset(strftime_z(start_time_dt))))
    IN  keyed(endpoint_utc(start_time_dt))

\* generate_activity_locations (geotag.py, geo-tagging.py) and the activity
\* branch of main.py, which skips an activity without 'start' or 'end'.
generate_activity_locations(v, entry, start_time_dt) ==
    LET both(start_time_utc, start, end, end_time_utc) ==
            IF ~start.ok THEN [ok |-> FALSE, err |-> start.err]
            ELSE IF ~end.ok THEN [ok |-> FALSE, err |-> end.err]
            ELSE IF ~end_time_utc.ok THEN [ok |-> FALSE, err |-> end_time_utc.err]
            ELSE [ok |-> TRUE,
                  locs |-> <<Location(start_time_utc.val, start.lat, start.lng,
                                      "activity_start"),
                             Location(end_time_utc.val, end.lat, end.lng,
                                      "activity_end")>>]
        keyed(start_time_utc) ==
            IF ~start_time_utc.ok THEN [ok |-> FALSE, err |-> start_time_utc.err]
            ELSE IF ~(entry.hasStart /\ entry.hasEnd)
            THEN IF v = "main" THEN [ok |-> TRUE, locs |-> <<>>]
                 ELSE [ok |-> FALSE, err |-> "KeyError"]
            ELSE both(start_time_utc, parse_geo_point(entry.start),
                      parse_geo_point(entry.end), endpoint_utc(entry.endTime))
    IN  keyed(endpoint_utc(start_time_dt))

\* generate_visit_locations and the visit branch of main.py.
generate_visit_locations(entry, start_time_dt) ==
    LET both(place, start_time_utc, end_time_utc) ==
            IF ~place.ok THEN [ok |-> FALSE, err |-> place.err]
            ELSE IF ~start_time_utc.ok THEN [ok |-> FALSE, err |-> start_time_utc.err]
            ELSE IF ~end_time_utc.ok THEN [ok |-> FALSE, err |-> end_time_utc.err]
            ELSE [ok |-> TRUE,
                  locs |-> <<Location(start_time_utc.val, place.lat, place.lng,
                                      "visit_start"),
                             Location(end_time_utc.val, place.lat, place.lng,
                                      "visit_end")>>]
    IN  both(parse_geo_point(entry.placeLocation), endpoint_utc(start_time_dt),
             endpoint_utc(entry.endTime))

\* Mutation of entry_locations: an entry with none of the three keys raises.
entry_locations_other_raises(v, entry) ==
    IF entry.kind = "timelinePath"
    THEN generate_timeline_locations(entry.timelinePath, entry.startTime)
    ELSE IF entry.kind = "activity"
    THEN generate_activity_locations(v, entry, entry.startTime)
    ELSE IF entry.kind = "visit"
    THEN generate_visit_locations(entry, entry.startTime)
    ELSE [ok |-> FALSE, err |-> "KeyError"]

\* The dispatch on the key an entry carries; an entry with none of the three
\* keys adds nothing.
entry_locations(v, entry) ==
    IF entry.kind = "timelinePath"
    THEN generate_timeline_locations(entry.timelinePath, entry.startTime)
    ELSE IF entry.kind = "activity"
    THEN generate_activity_locations(v, entry, entry.startTime)
    ELSE IF entry.kind = "visit"
    THEN generate_visit_locations(entry, entry.startTime)
    ELSE [ok |-> TRUE, locs |-> <<>>]

\* The loop of generate_locations_from_timeline: the samples of all entries
\* in document order; an entry that raises ends the loop with its exception.
RECURSIVE collect_locations(_, _)
collect_locations(v, data) ==
    IF data = <<>> THEN [ok |-> TRUE, locs |-> <<>>]
    ELSE extend(entry_locations(v, Head(data)), collect_locations(v, Tail(data)))

\* list.sort(key=lambda l: l.timestampUtc): a stable sort by timestamp.
RECURSIVE insert_sorted(_, _)
insert_sorted(sorted, l) ==
    IF sorted = <<>> THEN <<l>>
    ELSE IF dt_lt(l.timestampUtc, sorted[Len(sorted)].timestampUtc)
         THEN insert_sorted(SubSeq(sorted, 1, Len(sorted) - 1), l)
              \o <<sorted[Len(sorted)]>>
         ELSE sorted \o <<l>>

\* Mutation of sort_by_timestamp: the list is returned as collected.
sort_by_timestamp_skipped(locations) == locations

RECURSIVE sort_by_timestamp(_)
sort_by_timestamp(locations) ==
    IF locations = <<>> THEN <<>>
    ELSE insert_sorted(sort_by_timestamp(SubSeq(locations, 1, Len(locations) - 1)),
                       locations[Len(locations)])

generate_locations_from_timeline(v, data) ==
    LET sorted(collected) ==
            IF ~collected.ok THEN collected
            ELSE [ok |-> TRUE, locs |-> sort_by_timestamp(collected.locs)]
    IN  sorted(collect_locations(v, data))

(***************************************************************************)
(* Nearest-timestamp matcher.                                              *)
(***************************************************************************)
\* bisect.bisect_left(locations, a_location) with Location.__lt__.
RECURSIVE bisect_search(_, _, _, _)
bisect_search(locations, x, lo, hi) ==
    IF lo < hi
    THEN LET mid == (lo + hi) \div 2
         IN  IF dt_lt(locations[mid + 1].timestampUtc, x.timestampUtc)
             THEN bisect_search(locations, x, mid + 1, hi)
             ELSE bisect_search(locations, x, lo, mid)
    ELSE lo

bisect_left(locations, x) == bisect_search(locations, x, 0, Len(locations))

\* Mutation of prefer_after: the comparison is turned round.
prefer_after_farther(before, after, a_location) ==
    td_lt(dt_sub(a_location.timestampUtc, before.timestampUtc),
          dt_sub(after.timestampUtc, a_location.timestampUtc))

\* Mutation of prefer_after: <= in place of <.
prefer_after_on_tie(before, after, a_location) ==
    ~td_lt(dt_sub(a_location.timestampUtc, before.timestampUtc),
           dt_sub(after.timestampUtc, a_location.timestampUtc))

\* The final choice of find_closest_in_time between the two neighbours of
\* the insertion point: TRUE when it returns after.
prefer_after(before, after, a_location) ==
    td_lt(dt_sub(after.timestampUtc, a_location.timestampUtc),
          dt_sub(a_location.timestampUtc, before.timestampUtc))

\* Mutation of find_closest_in_time: the test pos == len(locations) is
\* missing, so locations[pos] raises IndexError past the end.
find_closest_in_time_no_end_test(locations, a_location) ==
    LET choose(pos) ==
            IF pos = 0
            THEN IF Len(locations) = 0 THEN [ok |-> FALSE, err |-> "IndexError"]
                 ELSE [ok |-> TRUE, idx |-> 1]
            ELSE IF pos = Len(locations) THEN [ok |-> FALSE, err |-> "IndexError"]
            ELSE IF prefer_after(locations[pos], locations[pos + 1], a_location)
                 THEN [ok |-> TRUE, idx |-> pos + 1]
                 ELSE [ok |-> TRUE, idx |-> pos]
    IN  choose(bisect_left(locations, a_location))

\* find_closest_in_time: idx is the 1-based position in locations of the
\* object returned; locations[0] of an empty list raises IndexError.
find_closest_in_time(locations, a_location) ==
    LET choose(pos) ==
            IF pos = 0
            THEN IF Len(locations) = 0 THEN [ok |-> FALSE, err |-> "IndexError"]
                 ELSE [ok |-> TRUE, idx |-> 1]
            ELSE IF pos = Len(locations) THEN [ok |-> TRUE, idx |-> Len(locations)]
            ELSE IF prefer_after(locations[pos], locations[pos + 1], a_location)
                 THEN [ok |-> TRUE, idx |-> pos + 1]
                 ELSE [ok |-> TRUE, idx |-> pos]
    IN  choose(bisect_left(locations, a_location))

(***************************************************************************)
(* Coordinate encoder.                                                     *)
(***************************************************************************)
\* Mutation of loc_value: <= in place of <.
loc_value_zero_negative(v, value, location) ==
    IF v = "main"
    THEN IF value <= 0 THEN location[1]
         ELSE IF value > 0 THEN location[2]
         ELSE ""
    ELSE IF value <= 0 THEN location[1] ELSE location[2]

\* The reference label of to_deg: main.py tests value < 0, value > 0 and
\* else; geotag.py and geo-tagging.py test value < 0 only.
loc_value(v, value, location) ==
    IF v = "main"
    THEN IF value < 0 THEN location[1]
         ELSE IF value > 0 THEN location[2]
         ELSE ""
    ELSE IF value < 0 THEN location[1] ELSE location[2]

\* to_deg on a value counted in 1/3600 degree: degrees, minutes, seconds
\* and the reference label.
to_deg(v, value, location) ==
    LET abs_value == IF value < 0 THEN 0 - value ELSE value
        deg == abs_value \div (60 * 60)
        min == (abs_value - deg * (60 * 60)) \div 60
        sec == (abs_value - deg * (60 * 60)) - min * 60
    IN  <<deg, min, sec, loc_value(v, value, location)>>

(***************************************************************************)
(* State.                                                                  *)
(***************************************************************************)
VARIABLES
    variant,          \* which of the three scripts runs
    data,             \* location_data: the decoded location-history document
    pc,               \* position of the script
    my_locations,     \* the timeline built by generate_locations_from_timeline
    raised,           \* the exception that ended the script, "" when none
    a_location,       \* the query sample of the latest lookup
    approx_location,  \* what find_closest_in_time returned for it
    call_args,        \* arguments of the latest call of a utility function
    call_result,      \* what that call returned
    args,             \* the command-line options of the run
    file_names,       \* the photos of the batch, each with what exiftool reports
    future,           \* per photo: pending, running, done (with outcome), cancelled
    next_result,      \* the photo the main loop is at (geotag.py: waits for)
    writes            \* the photos for which a metadata write was requested

batch_vars == <<args, file_names, future, next_result, writes>>

vars == <<variant, data, pc, my_locations, raised, a_location, approx_location,
          call_args, call_result, args, file_names, future, next_result, writes>>

NoCall == [fn |-> "none"]

\* The batch has not begun.
NoBatch ==
    /\ args = NoCall
    /\ file_names = <<>>
    /\ future = <<>>
    /\ next_result = 0
    /\ writes = {}

Range(seq) == {seq[i] : i \in DOMAIN seq}

Count(seq, x) == Cardinality({i \in DOMAIN seq : seq[i] = x})

SeqsUpTo(S, n) == UNION {[1..k -> S] : k \in 0..n}

(***************************************************************************)
(* Input documents.                                                        *)
(***************************************************************************)
aware(sec, us, off) == [sec |-> sec, us |-> us, aware |-> TRUE, off |-> off]

NineOClock == 9 * 3600

TenOClock == 10 * 3600

GeoA == <<"g", "e", "o", ":", "1", ",", "2">>

GeoB == <<"g", "e", "o", ":", "-", "3", ",", "0">>

\* The malformed geo-point "geo:abc,123".
GeoBad == <<"g", "e", "o", ":", "a", "b", "c", ",", "1", "2", "3">>

Entry(kind, startTime, endTime, timelinePath, hasStart, start, hasEnd, end, place) ==
    [kind |-> kind, startTime |-> startTime, endTime |-> endTime,
     timelinePath |-> timelinePath, hasStart |-> hasStart, start |-> start,
     hasEnd |-> hasEnd, end |-> end, placeLocation |-> place]

PathPoint(point, minutes) ==
    [point |-> point, durationMinutesOffsetFromStartTime |-> minutes]

TimelinePaths ==
    { <<>>,
      <<PathPoint(GeoA, <<"0">>)>>,
      <<PathPoint(GeoA, <<"9", "0">>), PathPoint(GeoB, <<"3", "0">>)>>,
      <<PathPoint(GeoBad, <<"0">>)>> }

TimelineStarts ==
    { aware(NineOClock, 0, 0), aware(NineOClock, 250000, 0), aware(NineOClock, 0, 120) }

\* startTime and endTime of an activity or a visit.
Spans ==
    { <<aware(NineOClock, 0, 120), aware(TenOClock, 0, 120)>>,
      <<aware(NineOClock, 0, 120), aware(TenOClock, 0, 60)>>,
      <<aware(NineOClock, 250000, 0 - 330), aware(TenOClock, 500000, 0 - 330)>> }

TimelineEntries ==
    { Entry("timelinePath", t, t, p, FALSE, <<>>, FALSE, <<>>, <<>>) :
        t \in TimelineStarts, p \in TimelinePaths }

ActivityEntries ==
    { Entry("activity", sp[1], sp[2], <<>>, TRUE, g[1], TRUE, g[2], <<>>) :
        sp \in Spans, g \in {<<GeoA, GeoB>>, <<GeoBad, GeoB>>, <<GeoA, GeoBad>>} }
    \cup
    { Entry("activity", aware(NineOClock, 0, 120), aware(TenOClock, 0, 120), <<>>,
            FALSE, <<>>, TRUE, GeoB, <<>>) }

VisitEntries ==
    { Entry("visit", sp[1], sp[2], <<>>, FALSE, <<>>, FALSE, <<>>, g) :
        sp \in Spans, g \in {GeoA, GeoBad} }

\* An entry with none of the keys timelinePath, activity, visit.
OtherEntries ==
    { Entry("other", aware(NineOClock, 0, 0), aware(NineOClock, 0, 0), <<>>,
            FALSE, <<>>, FALSE, <<>>, <<>>) }

Entries == TimelineEntries \cup ActivityEntries \cup VisitEntries \cup OtherEntries

Documents == SeqsUpTo(Entries, MaxRecords)

(***************************************************************************)
(* Loading the timeline: my_locations =                                    *)
(* generate_locations_from_timeline(location_data).                        *)
(***************************************************************************)
InitLoad ==
    /\ variant \in Variants
    /\ data \in Documents
    /\ pc = "start"
    /\ my_locations = <<>>
    /\ raised = ""
    /\ a_location = NoCall
    /\ approx_location = NoCall
    /\ call_args = NoCall
    /\ call_result = NoCall
    /\ NoBatch

LoadReturns ==
    /\ pc = "start"
    /\ \E r \in {generate_locations_from_timeline(variant, data)} :
          /\ r.ok
          /\ my_locations' = r.locs
    /\ pc' = "loaded"
    /\ UNCHANGED <<variant, data, raised, a_location, approx_location,
                   call_args, call_result>>
    /\ UNCHANGED batch_vars

LoadRaises ==
    /\ pc = "start"
    /\ \E r \in {generate_locations_from_timeline(variant, data)} :
          /\ ~r.ok
          /\ raised' = r.err
    /\ pc' = "crashed"
    /\ UNCHANGED <<variant, data, my_locations, a_location, approx_location,
                   call_args, call_result>>
    /\ UNCHANGED batch_vars

NextLoad == LoadReturns \/ LoadRaises

SpecLoad == InitLoad /\ [][NextLoad]_vars

(***************************************************************************)
(* Lookups against a sorted timeline.                                      *)
(***************************************************************************)
Stamps == {naive(s, u) : s \in 0..MaxTime, u \in {0, 500000}}

\* The i-th sample of a drawn timeline carries latitude i, so that samples
\* with equal timestamps remain distinct objects.
TimelineOf(stamps) ==
    [i \in DOMAIN stamps |-> Location(stamps[i], i * (60 * 60), 0, "timeline")]

IsSorted(locations) ==
    \A i \in 1..(Len(locations) - 1) :
        dt_le(locations[i].timestampUtc, locations[i + 1].timestampUtc)

SortedTimelines ==
    {TimelineOf(st) : st \in {x \in SeqsUpTo(Stamps, MaxLen) :
                                \A i \in 1..(Len(x) - 1) : dt_le(x[i], x[i + 1])}}

\* A photo's query timestamp: convert_to_utc has removed its microseconds.
QueryStamps == {naive(s, 0) : s \in (0 - 1)..(MaxTime + 1)}

InitMatch ==
    /\ variant \in Variants
    /\ data = <<>>
    /\ pc = "loaded"
    /\ my_locations \in SortedTimelines
    /\ raised = ""
    /\ a_location = NoCall
    /\ approx_location = NoCall
    /\ call_args = NoCall
    /\ call_result = NoCall
    /\ NoBatch

FindClosest ==
    /\ pc = "loaded"
    /\ \E q \in QueryStamps :
          /\ a_location' = Location(q, 0, 0, "")
          /\ approx_location' = find_closest_in_time(my_locations, a_location')
    /\ UNCHANGED <<variant, data, pc, my_locations, raised, call_args, call_result>>
    /\ UNCHANGED batch_vars

NextMatch == FindClosest

SpecMatch == InitMatch /\ [][NextMatch]_vars

(***************************************************************************)
(* Calls of convert_to_utc.                                                *)
(***************************************************************************)
TwoDigits(n) == <<DigitChar[(n \div 10) + 1], DigitChar[(n % 10) + 1]>>

\* The offset string +HH:MM or -HH:MM.
OffsetString(sign, hours, minutes) ==
    <<IF sign = 1 THEN "+" ELSE "-">> \o TwoDigits(hours) \o <<":">> \o TwoDigits(minutes)

LocalTimes ==
    {naive(s, u) : s \in {0, NineOClock}, u \in {0, 123456}}
    \cup {aware(s, u, 120) : s \in {0, NineOClock}, u \in {0, 123456}}

InitConvert ==
    /\ variant \in Variants
    /\ data = <<>>
    /\ pc = "call"
    /\ my_locations = <<>>
    /\ raised = ""
    /\ a_location = NoCall
    /\ approx_location = NoCall
    /\ call_args = NoCall
    /\ call_result = NoCall
    /\ NoBatch

ConvertWithOffset ==
    /\ pc = "call"
    /\ \E local_time \in LocalTimes, sign \in {1, 0 - 1},
          hours \in 0..MaxOffsetHours, minutes \in {0, 30, 45} :
          /\ call_args' = [fn |-> "convert_to_utc", local_time |-> local_time,
                           present |-> TRUE, sign |-> sign, hours |-> hours,
                           minutes |-> minutes,
                           offset_str |-> OffsetString(sign, hours, minutes)]
          /\ call_result' = convert_to_utc(local_time, call_args'.offset_str)
    /\ pc' = "returned"
    /\ UNCHANGED <<variant, data, my_locations, raised, a_location, approx_location>>
    /\ UNCHANGED batch_vars

ConvertWithoutOffset ==
    /\ pc = "call"
    /\ \E local_time \in LocalTimes :
          /\ call_args' = [fn |-> "convert_to_utc", local_time |-> local_time,
                           present |-> FALSE, sign |-> 1, hours |-> 0,
                           minutes |-> 0, offset_str |-> <<>>]
          /\ call_result' = convert_to_utc(local_time, <<>>)
    /\ pc' = "returned"
    /\ UNCHANGED <<variant, data, my_locations, raised, a_location, approx_location>>
    /\ UNCHANGED batch_vars

NextConvert == ConvertWithOffset \/ ConvertWithoutOffset

SpecConvert == InitConvert /\ [][NextConvert]_vars

(***************************************************************************)
(* Calls of to_deg.                                                        *)
(***************************************************************************)
\* Coordinates in steps of 1/8 degree.
DegValues == {k * 450 : k \in (0 - 8 * MaxDeg)..(8 * MaxDeg)}

InitToDeg == InitConvert

ToDeg ==
    /\ pc = "call"
    /\ \E value \in DegValues, location \in {<<"S", "N">>, <<"W", "E">>} :
          /\ call_args' = [fn |-> "to_deg", value |-> value, location |-> location]
          /\ call_result' = to_deg(variant, value, location)
    /\ pc' = "returned"
    /\ UNCHANGED <<variant, data, my_locations, raised, a_location, approx_location>>
    /\ UNCHANGED batch_vars

NextToDeg == ToDeg

SpecToDeg == InitToDeg /\ [][NextToDeg]_vars

(***************************************************************************)
(* The per-photo batch.                                                    *)
(***************************************************************************)
\* What exiftool -T prints for a tag that is absent.
Dash == <<"-">>

\* exif_data = result.stdout.strip().split(): the whitespace-separated
\* tokens of the six tags, a present DateTimeOriginal giving two tokens and
\* a present GPS coordinate five.
exif_tokens(photo) ==
    photo.DateTimeOriginal \o photo.SubSecTimeOriginal \o photo.OffsetTimeOriginal
    \o photo.GPSLatitude \o photo.GPSLongitude

\* datetime.strptime(date + ' ' + time, '%Y:%m:%d %H:%M:%S'): three numbers
\* each, else ValueError; the time of day counted in seconds.
strptime(date_original, time_original) ==
    LET number(r) == IF r.ok THEN r.val ELSE 0
        numbers(parts) == Len(parts) = 3 /\ \A i \in 1..3 : int(parts[i]).ok
        fields(d, t) ==
            IF numbers(d) /\ numbers(t)
            THEN [ok |-> TRUE,
                  val |-> naive(number(int(t[1])) * 3600 + number(int(t[2])) * 60
                                + number(int(t[3])), 0)]
            ELSE [ok |-> FALSE, err |-> "ValueError"]
    IN  fields(split(date_original, ":"), split(time_original, ":"))

\* The least number of tokens a script accepts: len(exif_data) < 3 in
\* main.py, < 6 in geotag.py and geo-tagging.py.
min_fields(v) == IF v = "main" THEN 3 ELSE 6

\* The offset handed to convert_to_utc: exif_data[3], or None in main.py
\* when there are no more than three tokens.
offset_time_original(v, exif_data) ==
    IF v = "main" /\ ~(Len(exif_data) > 3) THEN <<>> ELSE exif_data[4]

\* The test that skips a photo before its timestamp is read:
\* geotag.py      exif_data[4] != "-" and not args.overwrite
\* geo-tagging.py exif_data[4] == "-" or exif_data[5] == "-"
\* main.py        none at this point
skip_before_match(v, a, exif_data) ==
    IF v = "geotag" THEN exif_data[5] # Dash /\ ~a.overwrite
    ELSE IF v = "geo_tagging" THEN exif_data[5] = Dash \/ exif_data[6] = Dash
    ELSE FALSE

\* main.py: hours_away < hours_threshold, with hours_away =
\* abs(int(approx_location.timestampUtc.timestamp()) - time_jpeg_unix) / 3600.
within_tolerance(a, sample, timestamp_utc) ==
    LET diff == sample.timestampUtc.sec - timestamp_utc.sec
    IN  (IF diff < 0 THEN 0 - diff ELSE diff) < a.tolerance * 3600

\* main.py, once the sample is within tolerance: exif_data[4] != "-" and
\* exif_data[5] != "-" skips the photo.
skip_after_match(exif_data) == exif_data[5] # Dash /\ exif_data[6] # Dash

Outcome(outcome, wrote, err, sample) ==
    [outcome |-> outcome, wrote |-> wrote, err |-> err, sample |-> sample]

\* Mutation of process_image: the failure of the lookup is swallowed and the
\* write is requested all the same.
process_image_ignores_empty(v, a, locations, photo) ==
    LET exif_data == exif_tokens(photo)
        written(idx) ==
            Outcome(IF photo.write_ok THEN "updated" ELSE "write_error", TRUE, "", idx)
        matched(timestamp_utc, found) ==
            IF ~found.ok THEN written(0)
            ELSE IF v # "main" THEN written(found.idx)
            ELSE IF ~within_tolerance(a, locations[found.idx], timestamp_utc)
            THEN Outcome("skipped_far", FALSE, "", found.idx)
            ELSE IF skip_after_match(exif_data)
            THEN Outcome("skipped_gps", FALSE, "", found.idx)
            ELSE written(found.idx)
        located(timestamp_utc) ==
            IF ~timestamp_utc.ok THEN Outcome("raised", FALSE, timestamp_utc.err, 0)
            ELSE matched(timestamp_utc.val,
                         find_closest_in_time(locations,
                                              Location(timestamp_utc.val, 0, 0, "")))
        converted(timestamp_dt) ==
            IF ~timestamp_dt.ok THEN Outcome("raised", FALSE, timestamp_dt.err, 0)
            ELSE located(convert_to_utc(timestamp_dt.val,
                                        offset_time_original(v, exif_data)))
    IN  IF photo.returncode # 0 THEN Outcome("read_error", FALSE, "", 0)
        ELSE IF Len(exif_data) < min_fields(v) THEN Outcome("unexpected", FALSE, "", 0)
        ELSE IF skip_before_match(v, a, exif_data)
        THEN Outcome("skipped_gps", FALSE, "", 0)
        ELSE converted(strptime(exif_data[1], exif_data[2]))

\* One photo, from the exiftool read to the exiftool write: process_image of
\* geotag.py and the body of the loop of main.py and geo-tagging.py. sample
\* is the position in locations of the matched sample, wrote tells whether
\* the write command was run, outcome "raised" stands for an exception that
\* leaves the function.
process_image(v, a, locations, photo) ==
    LET exif_data == exif_tokens(photo)
        written(idx) ==
            Outcome(IF photo.write_ok THEN "updated" ELSE "write_error", TRUE, "", idx)
        matched(timestamp_utc, found) ==
            IF ~found.ok THEN Outcome("raised", FALSE, found.err, 0)
            ELSE IF v # "main" THEN written(found.idx)
            ELSE IF ~within_tolerance(a, locations[found.idx], timestamp_utc)
            THEN Outcome("skipped_far", FALSE, "", found.idx)
            ELSE IF skip_after_match(exif_data)
            THEN Outcome("skipped_gps", FALSE, "", found.idx)
            ELSE written(found.idx)
        located(timestamp_utc) ==
            IF ~timestamp_utc.ok THEN Outcome("raised", FALSE, timestamp_utc.err, 0)
            ELSE matched(timestamp_utc.val,
                         find_closest_in_time(locations,
                                              Location(timestamp_utc.val, 0, 0, "")))
        converted(timestamp_dt) ==
            IF ~timestamp_dt.ok THEN Outcome("raised", FALSE, timestamp_dt.err, 0)
            ELSE located(convert_to_utc(timestamp_dt.val,
                                        offset_time_original(v, exif_data)))
    IN  IF photo.returncode # 0 THEN Outcome("read_error", FALSE, "", 0)
        ELSE IF Len(exif_data) < min_fields(v) THEN Outcome("unexpected", FALSE, "", 0)
        ELSE IF skip_before_match(v, a, exif_data)
        THEN Outcome("skipped_gps", FALSE, "", 0)
        ELSE converted(strptime(exif_data[1], exif_data[2]))

\* Photos: what exiftool reports for each, and whether the write succeeds.
DateToken == <<"2", "0", "2", "4", ":", "0", "1", ":", "0", "1">>

TimeToken == <<"0", "9", ":", "0", "0", ":", "0", "0">>

SubSecToken == <<"2", "5">>

OffsetToken == <<"+", "0", "2", ":", "0", "0">>

LatitudeTokens == << <<"5", "2">>, <<"d", "e", "g">>, <<"3", "1", "'">>, <<"1", "2">>, <<"N">> >>

LongitudeTokens == << <<"1", "3">>, <<"d", "e", "g">>, <<"2", "4", "'">>, <<"0">>, <<"E">> >>

Photo(returncode, dto, subsec, offset, lat, lng, write_ok) ==
    [returncode |-> returncode, DateTimeOriginal |-> dto,
     SubSecTimeOriginal |-> subsec, OffsetTimeOriginal |-> offset,
     GPSLatitude |-> lat, GPSLongitude |-> lng, write_ok |-> write_ok]

Photos ==
    { Photo(1, <<Dash>>, <<Dash>>, <<Dash>>, <<Dash>>, <<Dash>>, TRUE) }
    \cup
    { Photo(0, <<DateToken, TimeToken>>, <<SubSecToken>>, offset, gps[1], gps[2], w) :
        offset \in {<<OffsetToken>>, <<Dash>>},
        gps \in {<<LatitudeTokens, LongitudeTokens>>, <<<<Dash>>, <<Dash>>>>},
        w \in BOOLEAN }
    \cup
    { Photo(0, <<Dash>>, <<SubSecToken>>, <<OffsetToken>>, gps[1], gps[2], TRUE) :
        gps \in {<<LatitudeTokens, LongitudeTokens>>, <<<<Dash>>, <<Dash>>>>} }

\* Timelines of the batch: none, one sample two hours from the photos'
\* 07:00 UTC, two samples with the nearer half an hour away.
BatchTimelines ==
    { <<>>,
      TimelineOf(<<naive(NineOClock, 0)>>),
      TimelineOf(<<naive(5 * 3600, 0), naive(6 * 3600 + 1800, 0)>>) }

\* The hours of tolerance a run is given: the default and the distance of
\* the farthest sample of BatchTimelines.
Tolerances == {1, 2}

\* The options of each script: --time / --tolerance (default 1), and in
\* geotag.py --overwrite and --workers.
Options(v) ==
    IF v = "geotag"
    THEN {[tolerance |-> t, overwrite |-> o, workers |-> w] :
            t \in Tolerances, o \in BOOLEAN, w \in 1..MaxWorkers}
    ELSE {[tolerance |-> t, overwrite |-> FALSE, workers |-> 1] : t \in Tolerances}

Future(state, result) == [state |-> state, result |-> result]

Pending == Future("pending", Outcome("", FALSE, "", 0))

InitBatch ==
    /\ variant \in Variants
    /\ data = <<>>
    /\ pc = "batch"
    /\ my_locations \in BatchTimelines
    /\ raised = ""
    /\ a_location = NoCall
    /\ approx_location = NoCall
    /\ call_args = NoCall
    /\ call_result = NoCall
    /\ args \in Options(variant)
    /\ file_names \in SeqsUpTo(Photos, MaxPhotos)
    /\ future = [i \in DOMAIN file_names |-> Pending]
    /\ next_result = 1
    /\ writes = {}

load_vars == <<variant, data, my_locations, a_location, approx_location,
               call_args, call_result, args, file_names>>

Sequential == variant \in {"main", "geo_tagging"}

\* main.py, geo-tagging.py: one turn of the for loop that ends normally.
PhotoHandled ==
    /\ pc = "batch" /\ Sequential
    /\ next_result \in DOMAIN file_names
    /\ \E r \in {process_image(variant, args, my_locations, file_names[next_result])} :
          /\ r.outcome # "raised"
          /\ future' = [future EXCEPT ![next_result] = Future("done", r)]
          /\ writes' = IF r.wrote THEN writes \cup {next_result} ELSE writes
    /\ next_result' = next_result + 1
    /\ UNCHANGED <<pc, raised>>
    /\ UNCHANGED load_vars

\* main.py, geo-tagging.py: an exception leaves the loop and ends the script.
PhotoRaises ==
    /\ pc = "batch" /\ Sequential
    /\ next_result \in DOMAIN file_names
    /\ \E r \in {process_image(variant, args, my_locations, file_names[next_result])} :
          /\ r.outcome = "raised"
          /\ future' = [future EXCEPT ![next_result] = Future("done", r)]
          /\ raised' = r.err
    /\ pc' = "crashed"
    /\ UNCHANGED <<next_result, writes>>
    /\ UNCHANGED load_vars

\* geotag.py: a worker thread of the pool takes the oldest queued photo.
WorkerStarts ==
    /\ pc \in {"batch", "shutdown"} /\ variant = "geotag"
    /\ Cardinality({i \in DOMAIN future : future[i].state = "running"}) < args.workers
    /\ \E i \in DOMAIN future :
          /\ future[i].state = "pending"
          /\ \A j \in 1..(i - 1) : future[j].state # "pending"
          /\ future' = [future EXCEPT ![i] = Future("running", Pending.result)]
    /\ UNCHANGED <<pc, raised, next_result, writes>>
    /\ UNCHANGED load_vars

\* Mutation of WorkerFinishes: the lookup takes the matched sample out of the
\* shared timeline.
WorkerFinishes_consumes_sample ==
    /\ pc \in {"batch", "shutdown"} /\ variant = "geotag"
    /\ \E i \in DOMAIN future :
          /\ future[i].state = "running"
          /\ \E r \in {process_image(variant, args, my_locations, file_names[i])} :
                /\ future' = [future EXCEPT ![i] = Future("done", r)]
                /\ writes' = IF r.wrote THEN writes \cup {i} ELSE writes
                /\ my_locations' =
                     IF r.sample > 0
                     THEN SubSeq(my_locations, 1, r.sample - 1)
                          \o SubSeq(my_locations, r.sample + 1, Len(my_locations))
                     ELSE my_locations
    /\ UNCHANGED <<pc, raised, next_result>>
    /\ UNCHANGED <<variant, data, a_location, approx_location,
                   call_args, call_result, args, file_names>>

\* geotag.py: process_image returns or raises in its worker thread.
WorkerFinishes ==
    /\ pc \in {"batch", "shutdown"} /\ variant = "geotag"
    /\ \E i \in DOMAIN future :
          /\ future[i].state = "running"
          /\ \E r \in {process_image(variant, args, my_locations, file_names[i])} :
                /\ future' = [future EXCEPT ![i] = Future("done", r)]
                /\ writes' = IF r.wrote THEN writes \cup {i} ELSE writes
    /\ UNCHANGED <<pc, raised, next_result>>
    /\ UNCHANGED load_vars

\* geotag.py: list(executor.map(...)) receives the next result in order.
ResultTaken ==
    /\ pc = "batch" /\ variant = "geotag"
    /\ next_result \in DOMAIN future
    /\ future[next_result].state = "done"
    /\ future[next_result].result.outcome # "raised"
    /\ next_result' = next_result + 1
    /\ UNCHANGED <<pc, raised, future, writes>>
    /\ UNCHANGED load_vars

\* geotag.py: the next result is an exception: it is raised in the main
\* thread, the futures not yet started are cancelled, and the with block
\* waits for the running ones.
ResultRaises ==
    /\ pc = "batch" /\ variant = "geotag"
    /\ next_result \in DOMAIN future
    /\ future[next_result].state = "done"
    /\ future[next_result].result.outcome = "raised"
    /\ raised' = future[next_result].result.err
    /\ future' = [i \in DOMAIN future |->
                    IF future[i].state = "pending"
                    THEN Future("cancelled", Pending.result) ELSE future[i]]
    /\ pc' = "shutdown"
    /\ UNCHANGED <<next_result, writes>>
    /\ UNCHANGED load_vars

\* geotag.py: the running threads have ended; the exception ends the script.
PoolShutDown ==
    /\ pc = "shutdown"
    /\ \A i \in DOMAIN future : future[i].state # "running"
    /\ pc' = "crashed"
    /\ UNCHANGED <<raised, future, next_result, writes>>
    /\ UNCHANGED load_vars

\* Every photo has been taken: the script ends (print('Done.')).
BatchEnds ==
    /\ pc = "batch"
    /\ next_result = Len(file_names) + 1
    /\ pc' = "done"
    /\ UNCHANGED <<raised, future, next_result, writes>>
    /\ UNCHANGED load_vars

NextBatch ==
    \/ PhotoHandled
    \/ PhotoRaises
    \/ WorkerStarts
    \/ WorkerFinishes
    \/ ResultTaken
    \/ ResultRaises
    \/ PoolShutDown
    \/ BatchEnds

SpecBatch == InitBatch /\ [][NextBatch]_vars

(***************************************************************************)
(* Properties of the matcher, checked under SpecMatch.                     *)
(***************************************************************************)
Looked == approx_location # NoCall

\* |sample - query| as a timedelta.
Gap(l) == td_abs(dt_sub(l.timestampUtc, a_location.timestampUtc))

\* The query lies strictly between samples k and k + 1.
Between(k) ==
    /\ k \in 1..(Len(my_locations) - 1)
    /\ dt_lt(my_locations[k].timestampUtc, a_location.timestampUtc)
    /\ dt_lt(a_location.timestampUtc, my_locations[k + 1].timestampUtc)

\* ... and is equidistant from both.
Tie(k) ==
    /\ Between(k)
    /\ dt_sub(my_locations[k + 1].timestampUtc, a_location.timestampUtc)
         = dt_sub(a_location.timestampUtc, my_locations[k].timestampUtc)

\* C1: on a non-empty sorted timeline find_closest_in_time returns a sample
\* whose absolute time difference to the query is minimal over all samples.
C1_ClosestOverAll ==
    (Looked /\ Len(my_locations) > 0) =>
        /\ approx_location.ok
        /\ approx_location.idx \in DOMAIN my_locations
        /\ \A j \in DOMAIN my_locations :
              ~td_lt(Gap(my_locations[j]), Gap(my_locations[approx_location.idx]))

\* C1 witness: a lookup strictly inside a timeline of three samples, two of
\* them with the same timestamp, that returned a sample strictly closer than
\* another one.
C1_Witness ==
    /\ Looked
    /\ Len(my_locations) = 3
    /\ \E k \in 1..2 : Between(k)
    /\ \E i \in 1..2 : my_locations[i].timestampUtc = my_locations[i + 1].timestampUtc
    /\ approx_location.ok
    /\ \E j \in DOMAIN my_locations :
          td_lt(Gap(my_locations[approx_location.idx]), Gap(my_locations[j]))

\* C2 as claimed: a query strictly between two adjacent samples and
\* equidistant from both gets the later sample.
C2_TieReturnsAfter ==
    Looked => \A k \in 1..(Len(my_locations) - 1) :
                  Tie(k) => (approx_location.ok /\ approx_location.idx = k + 1)

\* C2 amended: a query strictly between two adjacent samples and equidistant
\* from both gets the earlier sample (the 'before' candidate).
C2_TieReturnsBefore ==
    Looked => \A k \in 1..(Len(my_locations) - 1) :
                  Tie(k) => (approx_location.ok /\ approx_location.idx = k)

\* C2 witness: a lookup on an exact tie.
C2_Witness ==
    /\ Looked
    /\ \E k \in 1..(Len(my_locations) - 1) : Tie(k) /\ approx_location.idx = k

\* C3: a query earlier than every sample gets T[0]; a query later than every
\* sample gets T[-1], the last element of the list.
C3_Boundary ==
    (Looked /\ Len(my_locations) > 0) =>
        /\ (\A j \in DOMAIN my_locations :
               dt_lt(a_location.timestampUtc, my_locations[j].timestampUtc))
           => (approx_location.ok /\ approx_location.idx = 1)
        /\ (\A j \in DOMAIN my_locations :
               dt_lt(my_locations[j].timestampUtc, a_location.timestampUtc))
           => (approx_location.ok /\ approx_location.idx = Len(my_locations))

\* C3 witness: a query later than every sample of a timeline whose last two
\* samples share the last timestamp; the last element was returned.
C3_Witness ==
    /\ Looked
    /\ Len(my_locations) >= 2
    /\ my_locations[Len(my_locations)].timestampUtc
         = my_locations[Len(my_locations) - 1].timestampUtc
    /\ \A j \in DOMAIN my_locations :
          dt_lt(my_locations[j].timestampUtc, a_location.timestampUtc)
    /\ approx_location.ok
    /\ approx_location.idx = Len(my_locations)

(***************************************************************************)
(* Properties of the normalizer, checked under SpecLoad.                   *)
(***************************************************************************)
\* The samples of the records in document order, before the sort.
Collected == collect_locations(variant, data).locs

SameSamples(s, t) == \A x \in Range(s) \cup Range(t) : Count(s, x) = Count(t, x)

\* C4: the returned timeline is sorted ascending by timestampUtc and holds
\* exactly the samples produced from the records, none lost or duplicated.
C4_SortedPermutation ==
    (pc = "loaded") => /\ IsSorted(my_locations)
                       /\ SameSamples(my_locations, Collected)

\* C4 witness: a returned timeline of at least three samples from records of
\* two shapes whose samples were collected out of order.
C4_Witness ==
    /\ pc = "loaded"
    /\ Len(my_locations) >= 3
    /\ \E i, j \in DOMAIN data : data[i].kind # data[j].kind
    /\ ~IsSorted(Collected)

\* An entry one of whose geo-points fails to parse.
HasKeys(e) == e.kind = "activity" => (e.hasStart /\ e.hasEnd)

BadGeoPoint(e) ==
    \/ e.kind = "timelinePath"
         /\ \E i \in DOMAIN e.timelinePath : ~parse_geo_point(e.timelinePath[i].point).ok
    \/ e.kind = "activity" /\ HasKeys(e)
         /\ (~parse_geo_point(e.start).ok \/ ~parse_geo_point(e.end).ok)
    \/ e.kind = "visit" /\ ~parse_geo_point(e.placeLocation).ok

IsValidEntry(e) == HasKeys(e) /\ ~BadGeoPoint(e)

ValidEntries == SelectSeq(data, IsValidEntry)

\* C5 as claimed: when one record of the document carries a geo-point that
\* fails to parse and another record is valid, the load drops the bad record
\* only and returns the sorted samples of the valid records.
C5_BadRecordDropped ==
    (/\ pc # "start"
     /\ Cardinality({i \in DOMAIN data : BadGeoPoint(data[i])}) = 1
     /\ \E i \in DOMAIN data :
           IsValidEntry(data[i]) /\ entry_locations(variant, data[i]).locs # <<>>
     /\ \A i \in DOMAIN data : HasKeys(data[i]))
    => /\ pc = "loaded"
       /\ my_locations = generate_locations_from_timeline(variant, ValidEntries).locs

\* The UTC instant of an offset-aware timestamp, at second precision.
UtcInstant(t) == naive(t.sec - 60 * t.off, 0)

Stamp(timestamp, tag) == [timestampUtc |-> timestamp, maps_type |-> tag]

RECURSIVE ExpectedEndpoints(_)
ExpectedEndpoints(entries) ==
    IF entries = <<>> THEN <<>>
    ELSE LET e == Head(entries)
         IN  (IF e.kind = "activity"
              THEN <<Stamp(UtcInstant(e.startTime), "activity_start"),
                     Stamp(UtcInstant(e.endTime), "activity_end")>>
              ELSE IF e.kind = "visit"
              THEN <<Stamp(UtcInstant(e.startTime), "visit_start"),
                     Stamp(UtcInstant(e.endTime), "visit_end")>>
              ELSE <<>>)
             \o ExpectedEndpoints(Tail(entries))

IsEndpoint(l) == l.maps_type # "timeline"

ActualEndpoints ==
    LET ends == SelectSeq(my_locations, IsEndpoint)
    IN  [i \in DOMAIN ends |-> Stamp(ends[i].timestampUtc, ends[i].maps_type)]

\* C7: in a returned timeline every activity record and every visit record
\* (with the keys of the input contract) has exactly two samples, one at the
\* UTC instant of its startTime and one at the UTC instant of its endTime,
\* each by the offset of its own timestamp.
C7_TwoEndpointsOwnOffset ==
    (pc = "loaded" /\ \A i \in DOMAIN data : HasKeys(data[i]))
    => SameSamples(ActualEndpoints, ExpectedEndpoints(data))

\* C7 witness: a returned timeline with the samples 07:00 and 09:00 of an
\* activity from 09:00+02:00 to 10:00+01:00.
C7_Witness ==
    /\ pc = "loaded"
    /\ \E i \in DOMAIN data :
          /\ data[i].kind = "activity" /\ HasKeys(data[i])
          /\ data[i].startTime = aware(NineOClock, 0, 120)
          /\ data[i].endTime = aware(TenOClock, 0, 60)
    /\ \E j, k \in DOMAIN my_locations :
          /\ my_locations[j].maps_type = "activity_start"
          /\ my_locations[j].timestampUtc = naive(7 * 3600, 0)
          /\ my_locations[k].maps_type = "activity_end"
          /\ my_locations[k].timestampUtc = naive(9 * 3600, 0)

\* C8 as claimed: every sample of the returned timeline, whatever its record
\* shape, has a timezone-naive timestampUtc whose sub-second part is zero.
C8_SecondPrecision ==
    (pc = "loaded") =>
        \A i \in DOMAIN my_locations :
            /\ ~my_locations[i].timestampUtc.aware
            /\ my_locations[i].timestampUtc.us = 0

(***************************************************************************)
(* Properties of convert_to_utc, checked under SpecConvert.                *)
(***************************************************************************)
Converted == call_args # NoCall

\* C6: with an offset +HH:MM or -HH:MM convert_to_utc returns the local time
\* minus sign * (HH hours, MM minutes); with no offset it returns the local
\* time; in both cases timezone-naive and with the sub-second part removed.
C6_LocalMinusOffset ==
    Converted =>
        /\ call_result.ok
        /\ call_result.val =
             naive(call_args.local_time.sec
                   - call_args.sign * (call_args.hours * 3600 + call_args.minutes * 60),
                   0)
        /\ ~call_args.present => call_result.val.sec = call_args.local_time.sec

\* C6 witness: 09:00:00.123456 with offset -05:30 gave 14:30:00.
C6_Witness ==
    /\ Converted
    /\ call_args.offset_str = <<"-", "0", "5", ":", "3", "0">>
    /\ call_args.local_time.sec = NineOClock
    /\ call_args.local_time.us = 123456
    /\ call_args.local_time.aware
    /\ call_result.ok
    /\ call_result.val = naive(14 * 3600 + 30 * 60, 0)

(***************************************************************************)
(* Properties of to_deg, checked under SpecToDeg.                          *)
(***************************************************************************)
Encoded == call_args # NoCall

\* C9 as claimed: in every script the reference label is the negative label
\* for value < 0, the positive label for value > 0 and "" for value == 0.
C9_LabelEveryVariant ==
    Encoded =>
        call_result[4] = IF call_args.value < 0 THEN call_args.location[1]
                         ELSE IF call_args.value > 0 THEN call_args.location[2]
                         ELSE ""

\* C9 amended: the reference label is the negative label for value < 0 and
\* the positive label for value > 0; for value == 0 it is "" in main.py and
\* the positive label in geotag.py and geo-tagging.py.
C9_LabelByVariant ==
    Encoded =>
        call_result[4] = IF call_args.value < 0 THEN call_args.location[1]
                         ELSE IF call_args.value > 0 THEN call_args.location[2]
                         ELSE IF variant = "main" THEN ""
                         ELSE call_args.location[2]

\* C9 witness: to_deg(0, ("S", "N")) in geotag.py gave the label "N".
C9_Witness ==
    /\ Encoded
    /\ variant = "geotag"
    /\ call_args.value = 0
    /\ call_args.location = <<"S", "N">>
    /\ call_result = <<0, 0, 0, "N">>

(***************************************************************************)
(* Properties of the batch, checked under SpecBatch.                       *)
(***************************************************************************)
Ended == pc \in {"done", "crashed"}

\* C10 as claimed: with a timeline to match against, whatever fails on one
\* photo (read error, unavailable or unparsable fields, failed write), the
\* run reaches its end and every photo has been processed to its outcome.
C10_FailuresIsolated ==
    (Ended /\ Len(my_locations) > 0) =>
        /\ pc = "done"
        /\ \A i \in DOMAIN future :
              future[i].state = "done" /\ future[i].result.outcome # "raised"

\* What a run of geotag.py with one worker, taking the photos one after the
\* other, gives for the photo at position i.
SequentialResult(i) ==
    process_image("geotag", [args EXCEPT !.workers = 1], my_locations, file_names[i])

\* C11: in geotag.py no step of the batch changes my_locations, and in every
\* interleaving of the workers each finished photo has the outcome and the
\* matched sample that the run with one worker gives for that photo.
C11_LookupsIndependent ==
    /\ [][my_locations' = my_locations]_vars
    /\ [](variant = "geotag" =>
            \A i \in DOMAIN future :
                future[i].state = "done" => future[i].result = SequentialResult(i))

\* C11 witness: with two workers the second photo has been matched and
\* written while the lookup for the first is still running.
C11_Witness ==
    /\ variant = "geotag"
    /\ args.workers >= 2
    /\ Len(file_names) >= 2
    /\ future[1].state = "running"
    /\ future[2].state = "done"
    /\ future[2].result.sample > 0
    /\ future[2].result.wrote
    /\ SequentialResult(1).sample > 0

\* The photo reached the lookup: it was read, passed the tests on its fields
\* and its capture time was converted.
ReachesLookup(i) ==
    LET photo == file_names[i]
    IN  /\ photo.returncode = 0
        /\ Len(exif_tokens(photo)) >= min_fields(variant)
        /\ ~skip_before_match(variant, args, exif_tokens(photo))
        /\ strptime(exif_tokens(photo)[1], exif_tokens(photo)[2]).ok
        /\ photo.OffsetTimeOriginal # <<Dash>>

\* The lookup failed for the photo and returned no sample.
LookupFailed(i) ==
    /\ future[i].result.outcome = "raised"
    /\ future[i].result.err = "IndexError"
    /\ future[i].result.sample = 0
    /\ ~future[i].result.wrote

\* C13: with an empty timeline every lookup fails and returns no sample, no
\* photo receives a metadata write, and a run in which a photo reached the
\* lookup ends with that failure, never with 'Done.'.
C13_EmptyTimelineStops ==
    (my_locations = <<>>) =>
        /\ writes = {}
        /\ \A i \in DOMAIN future :
              future[i].state = "done" =>
                  /\ ~future[i].result.wrote
                  /\ ReachesLookup(i) => LookupFailed(i)
        /\ (pc = "done") => \A i \in DOMAIN future : ~ReachesLookup(i)
        /\ (pc = "crashed") => raised \in {"IndexError", "ValueError"}

\* C13 witness: the run has ended on the IndexError of the lookup of its
\* first photo, the second photo never written.
C13_Witness ==
    /\ my_locations = <<>>
    /\ pc = "crashed"
    /\ raised = "IndexError"
    /\ Len(file_names) = 2
    /\ ReachesLookup(1) /\ LookupFailed(1)
    /\ ReachesLookup(2)
    /\ writes = {}

\* What the metadata read reports about the photo at position i.
GpsPresent(i) ==
    file_names[i].GPSLatitude # <<Dash>> /\ file_names[i].GPSLongitude # <<Dash>>

GpsAbsent(i) ==
    file_names[i].GPSLatitude = <<Dash>> /\ file_names[i].GPSLongitude = <<Dash>>

\* The read succeeded and gave a capture date, time and offset.
UsableCaptureTime(i) ==
    /\ file_names[i].returncode = 0
    /\ file_names[i].DateTimeOriginal # <<Dash>>
    /\ file_names[i].OffsetTimeOriginal # <<Dash>>

Overwriting == variant = "geotag" /\ args.overwrite

\* C14 as claimed: a photo reported with GPS coordinates is never written
\* (in geotag.py: unless --overwrite), and a photo reported without GPS
\* coordinates and with a usable capture time is matched against the
\* timeline and its write requested (in main.py: when the sample is within
\* the tolerance).
C14_GpsPresentSkipped ==
    \A i \in DOMAIN future :
        future[i].state = "done" =>
            /\ (GpsPresent(i) /\ ~Overwriting) =>
                   (~future[i].result.wrote /\ i \notin writes)
            /\ (GpsAbsent(i) /\ UsableCaptureTime(i) /\ my_locations # <<>>) =>
                   /\ future[i].result.sample > 0
                   /\ \/ future[i].result.wrote /\ i \in writes
                      \/ variant = "main" /\ future[i].result.outcome = "skipped_far"

\* The UTC capture time of the photo at position i, as process_image
\* computes it.
PhotoUtc(i) ==
    LET exif_data == exif_tokens(file_names[i])
    IN  convert_to_utc(strptime(exif_data[1], exif_data[2]).val,
                       offset_time_original(variant, exif_data)).val

\* C15 as claimed: in every script (each accepts the tolerance option) a
\* write is requested for a photo only when the gap between its UTC capture
\* time and its matched sample is below the tolerance.
C15_WriteWithinTolerance ==
    \A i \in DOMAIN future :
        (future[i].state = "done" /\ future[i].result.wrote) =>
            within_tolerance(args, my_locations[future[i].result.sample], PhotoUtc(i))

(***************************************************************************)
(* Further properties of the normalizer, checked under SpecLoad.           *)
(***************************************************************************)
\* A record with none of the keys timelinePath, activity, visit.
IsOther(e) == e.kind = "other"

IsRecognized(e) == ~IsOther(e)

RecognizedEntries == SelectSeq(data, IsRecognized)

\* The state after the load is the one that the result r of a call gives.
LoadGave(r) ==
    IF r.ok THEN pc = "loaded" /\ my_locations = r.locs /\ raised = ""
    ELSE pc = "crashed" /\ raised = r.err

\* C12: a record with none of the three keys adds no sample and raises no
\* error: the load ends as it does for the document without such records,
\* and it returns when all the other records are valid.
C12_UnrecognizedDropped ==
    (pc # "start" /\ \E i \in DOMAIN data : IsOther(data[i])) =>
        /\ LoadGave(generate_locations_from_timeline(variant, RecognizedEntries))
        /\ (\A i \in DOMAIN data : IsValidEntry(data[i])) => pc = "loaded"

\* C12 witness: a document of an unrecognized record followed by an activity
\* has been loaded to the two samples of the activity.
C12_Witness ==
    /\ pc = "loaded"
    /\ Len(data) = 2
    /\ IsOther(data[1])
    /\ data[2].kind = "activity"
    /\ Len(my_locations) = 2
    /\ my_locations[1].maps_type = "activity_start"
    /\ my_locations[2].maps_type = "activity_end"

\* The UTC instants, in seconds, of the sub-points of a timelinePath whose
\* record starts at start: startTime converted to UTC plus the minutes.
RECURSIVE PathInstants(_, _)
PathInstants(timeline_path, start) ==
    IF timeline_path = <<>> THEN <<>>
    ELSE <<UtcInstant(start).sec
           + 60 * int(Head(timeline_path).durationMinutesOffsetFromStartTime).val>>
         \o PathInstants(Tail(timeline_path), start)

RECURSIVE ExpectedPathInstants(_)
ExpectedPathInstants(entries) ==
    IF entries = <<>> THEN <<>>
    ELSE (IF Head(entries).kind = "timelinePath"
          THEN PathInstants(Head(entries).timelinePath, Head(entries).startTime)
          ELSE <<>>)
         \o ExpectedPathInstants(Tail(entries))

IsPathSample(l) == l.maps_type = "timeline"

ActualPathInstants ==
    LET points == SelectSeq(my_locations, IsPathSample)
    IN  [i \in DOMAIN points |-> points[i].timestampUtc.sec]

\* C16 as claimed: in a returned timeline the samples of the timelinePath
\* records stand, to the second, at the UTC instants of their sub-points
\* (startTime converted to UTC by its own offset, plus the minutes), on the
\* same scale as the activity and visit endpoints.
C16_CommonUtcScale ==
    (pc = "loaded") => SameSamples(ActualPathInstants, ExpectedPathInstants(data))

====
